---------------------------- MODULE Spec2Model ----------------------------
(***************************************************************************)
(* Streaming workflow adapter of the company research assistant:           *)
(* DeepResearchService.stream_research (the async generator), the node     *)
(* processor and content extractors it calls, and the consuming loop of    *)
(* DeepResearchHandler._run_research_streaming.                            *)
(*                                                                         *)
(* The generator runs only while the consumer awaits __anext__ (demand);   *)
(* every yield hands one event over and suspends the generator.            *)
(***************************************************************************)
EXTENDS Integers, Sequences, FiniteSets, TLC

\* ----------------------------------------------------------------- bounds
\* Total number of node updates the engine delivers in one session.
MaxUpdates == 2

\* ------------------------------------------------------ program constants
RESEARCH_TIMEOUT == 900
HEARTBEAT_INTERVAL == 25

\* Wall-clock readings (seconds since the stream started) the clock may show
\* when a chunk arrives.
TimePoints == {0, 890, 905}

\* ------------------------------------------------------------ vocabulary
BlockKeys ==
  <<"crawl_log", "first_party_pages", "search_queries",
    "social_profiles", "ecommerce_listings">>

BlockKeySet == {BlockKeys[i] : i \in 1..Len(BlockKeys)}

\* ResearchStage values used by the adapter.
ResearchStage ==
  {"initialization", "clarification", "research_brief", "research_execution",
   "research_planning", "research_analysis", "research_synthesis",
   "final_report", "completed", "error"}

\* An embedded block of the text after a header: not there, there but not
\* parseable JSON, or a parseable array of 0, 1 or 2 entries.
RawBlocks == {"absent", "malformed", "empty", "one", "two"}

NoBlocks == [k \in BlockKeySet |-> "absent"]

\* Content of an event, by what the extractors and the conflict detector read
\* in it: the embedded blocks, the number of distinct source strings in it.
Content(blocks, srcs) == [blocks |-> blocks, srcs |-> srcs]

PlainContent == Content(NoBlocks, 0)

\* The supervisor payload, by what the expansion reads in it.
NoSup == [decisions |-> <<>>, actions |-> <<>>, notes |-> <<>>,
          summary |-> FALSE, fail |-> "none"]

\* node_data: truth is bool(node_data) ("raises": __bool__ raises); probe is
\* attribute probing with hasattr ("raises": an attribute access raising
\* something other than AttributeError); text is what content generation
\* renders from it.
Payload(truth, probe, text, sup) ==
  [truth |-> truth, probe |-> probe, text |-> text, sup |-> sup]

Update(name, data) == [name |-> name, data |-> data]

BriefText ==
  Content([k \in BlockKeySet |->
             CASE k = "crawl_log" -> "two"
               [] k = "first_party_pages" -> "one"
               [] k = "search_queries" -> "malformed"
               [] OTHER -> "absent"], 1)

ReportText ==
  Content([k \in BlockKeySet |->
             CASE k = "ecommerce_listings" -> "two"
               [] k = "social_profiles" -> "malformed"
               [] OTHER -> "absent"], 0)

SupervisorText ==
  Content([k \in BlockKeySet |->
             CASE k = "crawl_log" -> "empty"
               [] k = "first_party_pages" -> "absent"
               [] OTHER -> "one"], 2)

SupFull == [decisions |-> <<"ConductResearch">>, actions |-> <<"urls">>,
            notes |-> <<TRUE>>, summary |-> FALSE, fail |-> "none"]

SupBroken == [decisions |-> <<"ConductResearch">>, actions |-> <<>>,
              notes |-> <<>>, summary |-> FALSE, fail |-> "decisions"]

\* The node updates the engine may deliver.
Updates ==
  { Update("write_research_brief", Payload("true", "ok", BriefText, NoSup)),
    Update("research_supervisor", Payload("true", "ok", SupervisorText, SupFull)),
    Update("research_supervisor", Payload("true", "ok", PlainContent, SupBroken)),
    Update("research_supervisor", Payload("raises", "ok", SupervisorText, NoSup)),
    Update("research_supervisor", Payload("false", "ok", PlainContent, NoSup)),
    Update("final_report_generation", Payload("true", "ok", ReportText, NoSup)),
    Update("web_search", Payload("true", "ok", PlainContent, NoSup)),
    Update("web_search", Payload("true", "raises", PlainContent, NoSup)) }

\* A chunk is a mapping node_name -> node_data in insertion order: a sequence
\* of updates with pairwise different names.
ChunksOfLen(n) ==
  { c \in [1..n -> Updates] :
      \A i, j \in 1..n : i # j => c[i].name # c[j].name }

Chunks(maxLen) == UNION { ChunksOfLen(n) : n \in 1..maxLen }

\* The (research_id, model) pairs a call of stream_research may be given.
Sessions ==
  { [research_id |-> "research_a", model |-> "openai"],
    [research_id |-> "research_b", model |-> "anthropic"] }

\* ----------------------------------------------------------------- state
VARIABLES
  research_id,    \* argument of the call
  model,          \* argument of the call
  op_input,       \* argument of the content operation under study
  op_output,      \* what the calls of that operation returned, in order
  hash_seed,      \* string hashing of the running interpreter
  stage_logs,     \* st.session_state.deep_research_stage_logs
  pc,             \* where the generator stands
  demand,         \* the consumer awaits __anext__: the generator may run
  emitted,        \* the events yielded so far, in order
  received,       \* st.session_state.deep_research_events
  consumer,       \* "idle", "running", "stopped" (break), "finished",
                  \* "failed" (an exception left the loop)
  status,         \* deep_research_session.status
  current_stage,
  node_count,
  last_heartbeat,
  now,            \* the wall clock, seconds since workflow_start_time
  chunk,          \* the chunk being processed
  idx,            \* index in chunk of the next node update to process
  pending,        \* events of the current node update still to be yielded
  pulls,          \* number of times the engine's sequence was asked for a chunk
  delivered       \* node updates delivered by the engine so far

vars == <<research_id, model, op_input, op_output, hash_seed, stage_logs,
          status,
          pc, demand, emitted, received, consumer, current_stage, node_count,
          last_heartbeat, now, chunk, idx, pending, pulls, delivered>>


\* ---------------------------------------------------------------- events
\* StreamingEvent, by the fields the consumer can tell events apart with:
\*   kind   which yield of the adapter built it
\*   chunk  node_count when it was built, node: position of its node update in
\*          the chunk as delivered (0: not derived from a node update)
\*   n      chunk_number / chunks_processed / chunks_completed / total_nodes
\*   key    block key of an auxiliary api_call, step of a supervisor sub-event
\*   meta   metadata is a non-empty dict
\*   input  the content embeds text of the query or of the payload
\*   cf     the content reads as a financial uncertainty (_detect_conflicts)
\* and research_id, model, timestamp as the adapter fills them in.

\* A timestamp taken from the time of the last heartbeat.
TimestampOfLastHeartbeat == last_heartbeat

\* timestamp=datetime.utcnow().isoformat(): the clock when the event is built.
Timestamp == now

StreamingEvent(type, stage, kind, ch, nd, n, key, text, err, meta, input) ==
  [type |-> type, stage |-> stage, kind |-> kind, chunk |-> ch, node |-> nd,
   n |-> n, key |-> key, content |-> text, error |-> err, meta |-> meta,
   input |-> input, cf |-> FALSE,
   timestamp |-> Timestamp, research_id |-> research_id, model |-> model]

\* An event built once the clock shows t.
BuiltAt(ev, t) == [ev EXCEPT !.timestamp = t]

StageStartEvent ==
  StreamingEvent("stage_start", "initialization", "stage_start", 0, 0, 0, "",
                 PlainContent, "", TRUE, TRUE)

ResolvedModelEvent ==
  StreamingEvent("api_call", "initialization", "resolved_model", 0, 0, 0, "",
                 PlainContent, "", FALSE, FALSE)

\* The per-chunk api_call numbered before node_count is incremented.
ChunkEventNumberedFromZero(stage, nc) ==
  StreamingEvent("api_call", stage, "chunk", nc, 0, nc - 1, "",
                 PlainContent, "", TRUE, FALSE)

ChunkEvent(stage, nc) ==
  StreamingEvent("api_call", stage, "chunk", nc, 0, nc, "",
                 PlainContent, "", TRUE, FALSE)

HeartbeatEvent(stage, nc) ==
  StreamingEvent("heartbeat", stage, "heartbeat", nc, 0, nc, "",
                 PlainContent, "", TRUE, FALSE)

TimeoutWarningEvent(stage, nc) ==
  StreamingEvent("timeout_warning", stage, "timeout", nc, 0, nc, "",
                 PlainContent, "", TRUE, FALSE)

StageCompleteEvent(nc) ==
  StreamingEvent("stage_complete", "completed", "complete", nc, 0, nc, "",
                 PlainContent, "", TRUE, FALSE)

\* An error event built without error=str(e).
ErrorEventNoMessage(stage, nc, msg) ==
  StreamingEvent("error", stage, "fatal", nc, 0, 0, "",
                 PlainContent, "", FALSE, FALSE)

\* Lines 291-301: the terminal error event of the outer handler.
ErrorEvent(stage, nc, msg) ==
  StreamingEvent("error", stage, "fatal", nc, 0, 0, "",
                 PlainContent, msg, FALSE, FALSE)

\* ----------------------------------------------------- content extractors
\* len(json.loads(raw)) of a block, [] when the header is absent or the
\* literal does not parse.
BlockLen(raw) ==
  CASE raw = "one" -> 1
    [] raw = "two" -> 2
    [] OTHER -> 0

\* _extract_json_blocks: always the five keys, each with its own result.
ExtractJsonBlocks(text) == [k \in BlockKeySet |-> BlockLen(text.blocks[k])]

MaxSources == 5

\* _extract_sources_from_text: at most 5 sources.
ExtractSourcesFromText(text) ==
  IF text.srcs > MaxSources THEN MaxSources ELSE text.srcs

\* ---------------------------------------------------------- node processor
\* The table looked up without a default: None for a name outside it.
StageMappingWithoutDefault(node_name) ==
  CASE node_name = "clarify_with_user" -> "clarification"
    [] node_name = "write_research_brief" -> "research_brief"
    [] node_name = "research_supervisor" -> "research_execution"
    [] node_name = "final_report_generation" -> "final_report"
    [] OTHER -> "none"

StageMapping(node_name) ==
  CASE node_name = "clarify_with_user" -> "clarification"
    [] node_name = "write_research_brief" -> "research_brief"
    [] node_name = "research_supervisor" -> "research_execution"
    [] node_name = "final_report_generation" -> "final_report"
    [] OTHER -> "research_execution"

\* _generate_node_content: the text rendered from the payload; the generic
\* line when rendering raises.
GenerateNodeContent(u) ==
  IF u.data.probe = "raises" THEN PlainContent ELSE u.data.text

\* The except branch of _process_workflow_node.
NodeErrorEvent(u, nc) ==
  StreamingEvent("error", "error", "primary", nc, u.pos, 0, "",
                 PlainContent, "node failure", FALSE, TRUE)

\* _process_workflow_node: the has_messages probe of the metadata is inside
\* the try, after content generation.
ProcessWorkflowNode(u, nc) ==
  IF u.data.probe = "raises"
    THEN NodeErrorEvent(u, nc)
    ELSE StreamingEvent("stage_update", StageMapping(u.name), "primary", nc,
                        u.pos, 0, "", GenerateNodeContent(u), "", TRUE, TRUE)

\* ------------------------------------------------ auxiliary events (fan-out)
RECURSIVE Concat(_)
Concat(ss) == IF ss = <<>> THEN <<>> ELSE Head(ss) \o Concat(Tail(ss))

\* The block types stream_research emits a dedicated api_call for, in the
\* order of its four `if json_blocks.get(...)` statements.
EmittedBlockKeys ==
  <<"crawl_log", "search_queries", "social_profiles", "ecommerce_listings">>

JsonBlockEvent(stage, nc, pos, key, count) ==
  StreamingEvent("api_call", stage, "json", nc, pos, count, key,
                 PlainContent, "", TRUE, FALSE)

SourcesFoundEvent(stage, nc, pos, count) ==
  StreamingEvent("sources_found", stage, "sources", nc, pos, count, "",
                 PlainContent, "", TRUE, FALSE)

\* The sources_found event yielded ahead of the block events.
AuxiliaryEventsSourcesFirst(ev, stage, nc, pos) ==
  LET json_blocks == ExtractJsonBlocks(ev.content)
      sources == ExtractSourcesFromText(ev.content)
  IN  (IF sources > 0 THEN <<SourcesFoundEvent(stage, nc, pos, sources)>>
                      ELSE <<>>)
      \o Concat([i \in 1..Len(EmittedBlockKeys) |->
                   IF json_blocks[EmittedBlockKeys[i]] > 0
                     THEN <<JsonBlockEvent(stage, nc, pos, EmittedBlockKeys[i],
                                           json_blocks[EmittedBlockKeys[i]])>>
                     ELSE <<>>])

\* Lines 206-260 of stream_research: what follows the primary event `ev`.
AuxiliaryEvents(ev, stage, nc, pos) ==
  LET json_blocks == ExtractJsonBlocks(ev.content)
      sources == ExtractSourcesFromText(ev.content)
  IN  Concat([i \in 1..Len(EmittedBlockKeys) |->
                IF json_blocks[EmittedBlockKeys[i]] > 0
                  THEN <<JsonBlockEvent(stage, nc, pos, EmittedBlockKeys[i],
                                        json_blocks[EmittedBlockKeys[i]])>>
                  ELSE <<>>])
      \o (IF sources > 0 THEN <<SourcesFoundEvent(stage, nc, pos, sources)>>
                         ELSE <<>>)

\* ------------------------------------------- supervisor sub-event expansion
\* Supervisor sub-events that carry a research_id of their own.
SupEventOwnSession(type, stage, nc, pos, step, input) ==
  [StreamingEvent(type, stage, "sup", nc, pos, 0, step, PlainContent, "",
                  TRUE, input) EXCEPT !.research_id = "supervisor"]

SupEvent(type, stage, nc, pos, step, input) ==
  StreamingEvent(type, stage, "sup", nc, pos, 0, step,
                 PlainContent, "", TRUE, input)

SupDecision(tool_name, nc, pos) ==
  CASE tool_name = "ConductResearch" ->
         <<SupEvent("research_step", "research_execution", nc, pos,
                    "supervisor_decision", TRUE)>>
    [] tool_name = "think_tool" ->
         <<SupEvent("research_step", "research_planning", nc, pos,
                    "supervisor_thinking", TRUE)>>
    [] tool_name = "ResearchComplete" ->
         <<SupEvent("research_step", "research_synthesis", nc, pos,
                    "supervisor_completion", FALSE)>>
    [] OTHER -> <<>>

\* query_index, search_index and finding_index of the metadata.
Indexed(event, i) == [event EXCEPT !.n = i]

\* Lines 866-907: message i of ai_messages[:5]; "short" is a message of at
\* most 50 characters, "urls" one from which sources are extracted, "plain"
\* one without.
SupAction(message, i, nc, pos) ==
  IF message = "short" THEN <<>>
  ELSE <<Indexed(SupEvent("research_step", "research_execution", nc, pos,
                          "research_action", TRUE), i)>>
       \o (IF message = "urls"
             THEN <<Indexed(SupEvent("sources_found", "research_execution",
                                     nc, pos, "action_sources", FALSE), i)>>
             ELSE <<>>)

\* _process_research_supervisor_data: the sub-events it yields, in order. An
\* exception inside it is caught by its own handler and ends the expansion
\* where it stands (fail: the step of the payload that raises).
ProcessResearchSupervisorData(u, nc) ==
  LET sup == u.data.sup
      pos == u.pos
      planning == <<SupEvent("research_step", "research_planning", nc, pos,
                             "planning", FALSE)>>
      decisions == Concat([i \in 1..Len(sup.decisions) |->
                             SupDecision(sup.decisions[i], nc, pos)])
      actions == Concat([i \in 1..Len(sup.actions) |->
                           SupAction(sup.actions[i], i, nc, pos)])
      digest == IF actions # <<>>
                  THEN <<SupEvent("research_step", "research_execution", nc,
                                  pos, "comprehensive_progress", TRUE)>>
                  ELSE <<>>
      analysis == <<SupEvent("research_step", "research_analysis", nc, pos,
                             "analysis", FALSE)>>
      findings == Concat([i \in 1..Len(sup.notes) |->
                            IF sup.notes[i]
                              THEN <<Indexed(SupEvent("research_finding",
                                                      "research_execution",
                                                      nc, pos, "finding",
                                                      TRUE), i)>>
                              ELSE <<>>])
      synthesis == <<SupEvent("research_step", "research_synthesis", nc, pos,
                              "synthesis", FALSE)>>
      summary == IF sup.summary
                   THEN <<SupEvent("research_summary", "research_execution",
                                   nc, pos, "summary", TRUE)>>
                   ELSE <<>>
  IN  CASE sup.fail = "decisions" -> planning
        [] sup.fail = "notes" ->
             planning \o decisions \o actions \o digest \o analysis
        [] OTHER ->
             planning \o decisions \o actions \o digest \o analysis
             \o findings \o synthesis \o summary

\* Lines 262-273 of stream_research: `node_name == "research_supervisor" and
\* node_data`; a truth test that raises lands in the per-node handler, which
\* goes on to the next node.
SupervisorEvents(u, nc) ==
  IF u.name = "research_supervisor" /\ u.data.truth = "true"
    THEN ProcessResearchSupervisorData(u, nc)
    ELSE <<>>

\* ------------------------------------------------------------- the consumer
\* stage_key = event.stage.value if event.stage else "unknown"
StageKeys == ResearchStage \cup {"unknown"}

StageKey(event) ==
  IF event.stage \in ResearchStage THEN event.stage ELSE "unknown"

\* deep_research_stage_logs = {}: every bucket reads as [].
NoLogs == [k \in StageKeys |-> <<>>]

\* The entry appended to the bucket of the event's stage.
LogEntry(event) ==
  [timestamp |-> event.timestamp, type |-> event.type,
   content |-> event.content, metadata |-> event.meta]

\* A loop that checks for a conflict before it stores the event.
RecordedUnlessConflict(events, event) ==
  IF event.meta /\ event.cf THEN events ELSE Append(events, event)

\* st.session_state.deep_research_events.append(event)
Recorded(events, event) == Append(events, event)

\* _detect_conflicts: None without metadata; otherwise decided by the content.
DetectConflicts(ev) == ev.meta /\ ev.cf

\* What the content of an event may read as: only text that comes from the
\* query or the payload can show a conflict.
ConflictReadings(ev) == IF ev.input THEN BOOLEAN ELSE {FALSE}

\* ------------------------------------------------------------------- steps
\* A producer that runs ahead of its consumer.
GeneratorRunsEagerly == TRUE

\* The generator runs only when the consumer has asked for the next event.
GeneratorRuns == demand

\* `yield ev`: the event goes to the consumer and the generator suspends.
Yield(ev) ==
  \E cf \in ConflictReadings(ev) :
     /\ emitted' = Append(emitted, [ev EXCEPT !.cf = cf])
     /\ demand' = FALSE

\* A loop that walks the chunk from its last node update to its first.
ItemsReversed(c) ==
  [i \in 1..Len(c) |-> [pos |-> Len(c) + 1 - i,
                        name |-> c[Len(c) + 1 - i].name,
                        data |-> c[Len(c) + 1 - i].data]]

\* chunk.items(): the node updates of a chunk in the order delivered.
Items(c) ==
  [i \in 1..Len(c) |-> [pos |-> i, name |-> c[i].name, data |-> c[i].data]]

\* An engine that is asked for its first chunk as soon as the stream starts.
AtAwaitFromStart ==
  pc \in {"started", "stream"} /\ pending = <<>> /\ idx > Len(chunk)

\* The generator stands at `async for chunk in deep_researcher.astream(...)`.
AtAwait == pc = "stream" /\ pending = <<>> /\ idx > Len(chunk)

\* No content operation is called on its own while a session streams.
NoInput == [op |-> "none"]

Init ==
  /\ \E s \in Sessions : research_id = s.research_id /\ model = s.model
  /\ op_input = NoInput
  /\ op_output = <<>>
  /\ hash_seed = 1
  /\ stage_logs = NoLogs
  /\ pc = "start"
  /\ demand = FALSE
  /\ emitted = <<>>
  /\ received = <<>>
  /\ consumer = "idle"
  /\ status = "running"
  /\ current_stage = "initialization"
  /\ node_count = 0
  /\ last_heartbeat = 0
  /\ now = 0
  /\ chunk = <<>>
  /\ idx = 1
  /\ pending = <<>>
  /\ pulls = 0
  /\ delivered = 0

\* _run_research_streaming enters `async for event in stream_research(...)`.
StartStreaming ==
  /\ consumer = "idle"
  /\ consumer' = "running"
  /\ demand' = TRUE
  /\ UNCHANGED <<research_id, model, op_input, op_output, hash_seed, status,
                 stage_logs,
                 pc, emitted, received, current_stage, node_count,
                 last_heartbeat, now, chunk, idx, pending, pulls, delivered>>

\* Lines 64-96 and 291-301: config creation, then the stage_start event; a
\* failure of config creation goes to the outer handler.
Begin ==
  /\ pc = "start"
  /\ GeneratorRuns
  /\ \E config_ok \in BOOLEAN :
       IF config_ok
         THEN /\ Yield(StageStartEvent)
              /\ pc' = "started"
         ELSE /\ Yield(ErrorEvent(current_stage, node_count, "config failure"))
              /\ pc' = "failed"
  /\ UNCHANGED <<research_id, model, op_input, op_output, hash_seed, status,
                 stage_logs,
                 received, consumer, current_stage, node_count, last_heartbeat,
                 now, chunk, idx, pending, pulls, delivered>>

\* Lines 98-109.
EmitResolvedModel ==
  /\ pc = "started"
  /\ GeneratorRuns
  /\ Yield(ResolvedModelEvent)
  /\ pc' = "stream"
  /\ UNCHANGED <<research_id, model, op_input, op_output, hash_seed, status,
                 stage_logs,
                 received, consumer, current_stage, node_count, last_heartbeat,
                 now, chunk, idx, pending, pulls, delivered>>

\* Lines 113-142: the engine delivers a chunk; the per-chunk api_call.
ReceiveChunk ==
  /\ AtAwait
  /\ GeneratorRuns
  /\ delivered < MaxUpdates
  /\ \E c \in Chunks(MaxUpdates - delivered), t \in TimePoints :
       /\ t >= now
       /\ now' = t
       /\ chunk' = Items(c)
       /\ delivered' = delivered + Len(c)
       /\ Yield(BuiltAt(ChunkEvent(current_stage, node_count + 1), t))
  /\ idx' = 1
  /\ pulls' = pulls + 1
  /\ node_count' = node_count + 1
  /\ pc' = "heartbeat_check"
  /\ UNCHANGED <<research_id, model, op_input, op_output, hash_seed, status,
                 stage_logs,
                 received, consumer, current_stage, last_heartbeat, pending>>

\* A heartbeat that is due whenever the stream is older than the interval.
HeartbeatDueSinceStart == now > HEARTBEAT_INTERVAL

\* Line 149: current_time - last_heartbeat > HEARTBEAT_INTERVAL.
HeartbeatDue == now - last_heartbeat > HEARTBEAT_INTERVAL

\* Lines 145-163.
HeartbeatCheck ==
  /\ pc = "heartbeat_check"
  /\ GeneratorRuns
  /\ IF HeartbeatDue
       THEN /\ Yield(HeartbeatEvent(current_stage, node_count))
            /\ last_heartbeat' = now
       ELSE UNCHANGED <<emitted, demand, last_heartbeat>>
  /\ pc' = "timeout_check"
  /\ UNCHANGED <<research_id, model, op_input, op_output, hash_seed, status,
                 stage_logs,
                 received, consumer, current_stage, node_count, now, chunk,
                 idx, pending, pulls, delivered>>

\* Lines 165-184: the timeout_warning and the break, or on to the node loop.
TimeoutCheck ==
  /\ pc = "timeout_check"
  /\ GeneratorRuns
  /\ IF now > RESEARCH_TIMEOUT
       THEN /\ Yield(TimeoutWarningEvent(current_stage, node_count))
            /\ pc' = "timed_out"
       ELSE /\ pc' = "stream"
            /\ UNCHANGED <<emitted, demand>>
  /\ UNCHANGED <<research_id, model, op_input, op_output, hash_seed, status,
                 stage_logs,
                 received, consumer, current_stage, node_count, last_heartbeat,
                 now, chunk, idx, pending, pulls, delivered>>

\* The per-node handler (lines 270-273) logs and continues: after a node
\* update, failed or not, the loop goes on to the next one of the chunk.
NextIndexBreaks(u, i, c) ==
  IF u.data.truth = "raises" \/ u.data.probe = "raises"
    THEN Len(c) + 1
    ELSE i + 1

NextIndex(u, i, c) == i + 1

\* The tracked stage left as it is.
StageKept(stage, current) == current

\* Line 193: current_stage = event.stage or current_stage.
StageOr(stage, current) == IF stage = "none" THEN current ELSE stage

\* Lines 184-273 for one node update: the primary event, and what is to follow
\* it before the next node update.
ProcessNode ==
  /\ pc = "stream"
  /\ GeneratorRuns
  /\ pending = <<>>
  /\ idx <= Len(chunk)
  /\ LET u == chunk[idx]
         event == ProcessWorkflowNode(u, node_count)
         stage == StageOr(event.stage, current_stage)
     IN  /\ current_stage' = stage
         /\ Yield(event)
         /\ pending' = AuxiliaryEvents(event, stage, node_count, u.pos)
                       \o SupervisorEvents(u, node_count)
  /\ idx' = NextIndex(chunk[idx], idx, chunk)
  /\ UNCHANGED <<research_id, model, op_input, op_output, hash_seed, status,
                 stage_logs,
                 pc, received, consumer, node_count, last_heartbeat, now,
                 chunk, pulls, delivered>>

\* The next yield of lines 206-269.
YieldPending ==
  /\ pc = "stream"
  /\ GeneratorRuns
  /\ pending # <<>>
  /\ Yield(Head(pending))
  /\ pending' = Tail(pending)
  /\ UNCHANGED <<research_id, model, op_input, op_output, hash_seed, status,
                 stage_logs,
                 pc, received, consumer, current_stage, node_count,
                 last_heartbeat, now, chunk, idx, pulls, delivered>>

\* Lines 113, 275, 280-289: the engine's sequence is exhausted.
EngineExhausted ==
  /\ AtAwait
  /\ GeneratorRuns
  /\ pulls' = pulls + 1
  /\ Yield(StageCompleteEvent(node_count))
  /\ pc' = "completed"
  /\ UNCHANGED <<research_id, model, op_input, op_output, hash_seed, status,
                 stage_logs,
                 received, consumer, current_stage, node_count, last_heartbeat,
                 now, chunk, idx, pending, delivered>>

\* Lines 181, 280-289: after the break on timeout.
CompleteAfterTimeout ==
  /\ pc = "timed_out"
  /\ GeneratorRuns
  /\ Yield(StageCompleteEvent(node_count))
  /\ pc' = "completed"
  /\ UNCHANGED <<research_id, model, op_input, op_output, hash_seed, status,
                 stage_logs,
                 received, consumer, current_stage, node_count, last_heartbeat,
                 now, chunk, idx, pending, pulls, delivered>>

\* Lines 113, 276-278, 291-301: the engine's sequence raises.
EngineRaises ==
  /\ AtAwait
  /\ GeneratorRuns
  /\ pulls' = pulls + 1
  /\ Yield(ErrorEvent(current_stage, node_count, "engine failure"))
  /\ pc' = "failed"
  /\ UNCHANGED <<research_id, model, op_input, op_output, hash_seed, status,
                 stage_logs,
                 received, consumer, current_stage, node_count, last_heartbeat,
                 now, chunk, idx, pending, delivered>>

\* The status a terminal error event of the orchestrator would give.
StatusFromTerminalEvent(events) ==
  IF events # <<>> /\ events[Len(events)].type = "error"
    THEN "error" ELSE "completed"

\* Line 428, right after the loop: status = "completed".
StatusAfterLoop(events) == "completed"

\* The generator returns: the consumer's loop ends.
Return ==
  /\ pc \in {"completed", "failed"}
  /\ GeneratorRuns
  /\ pc' = "done"
  /\ demand' = FALSE
  /\ consumer' = "finished"
  /\ status' = StatusAfterLoop(received)
  /\ UNCHANGED <<research_id, model, op_input, op_output, hash_seed,
                 stage_logs,
                 emitted, received, current_stage, node_count, last_heartbeat,
                 now, chunk, idx, pending, pulls, delivered>>

\* The loop body of _run_research_streaming for one event: record it, break on
\* a detected conflict, else ask for the next event.
HandleEvent ==
  /\ consumer = "running"
  /\ ~demand
  /\ Len(received) < Len(emitted)
  /\ LET event == emitted[Len(received) + 1]
     IN  /\ received' = Recorded(received, event)
         /\ stage_logs' = [stage_logs EXCEPT ![StageKey(event)] =
                             Append(@, LogEntry(event))]
         /\ IF DetectConflicts(event)
              THEN /\ consumer' = "stopped"
                   /\ status' = StatusAfterLoop(Recorded(received, event))
                   /\ UNCHANGED demand
              ELSE /\ demand' = TRUE
                   /\ UNCHANGED <<consumer, status>>
  /\ UNCHANGED <<research_id, model, op_input, op_output, hash_seed,
                 pc, emitted, current_stage, node_count, last_heartbeat, now,
                 chunk, idx, pending, pulls, delivered>>

\* Lines 408-414, 457-477: the display of the event just recorded raises; the
\* exception leaves the loop and the handler sets status = "error".
DisplayRaises ==
  /\ consumer = "running"
  /\ ~demand
  /\ Len(received) < Len(emitted)
  /\ LET event == emitted[Len(received) + 1]
     IN  /\ received' = Recorded(received, event)
         /\ stage_logs' = [stage_logs EXCEPT ![StageKey(event)] =
                             Append(@, LogEntry(event))]
  /\ consumer' = "failed"
  /\ status' = "error"
  /\ UNCHANGED <<research_id, model, op_input, op_output, hash_seed,
                 pc, demand, emitted, current_stage, node_count,
                 last_heartbeat, now, chunk, idx, pending, pulls, delivered>>

Next ==
  \/ StartStreaming
  \/ Begin
  \/ EmitResolvedModel
  \/ ReceiveChunk
  \/ HeartbeatCheck
  \/ TimeoutCheck
  \/ ProcessNode
  \/ YieldPending
  \/ EngineExhausted
  \/ CompleteAfterTimeout
  \/ EngineRaises
  \/ Return
  \/ HandleEvent
  \/ DisplayRaises

Spec == Init /\ [][Next]_vars

\* ------------------------------------------------------------- properties
Last == emitted[Len(emitted)]

CountType(t) == Cardinality({i \in DOMAIN emitted : emitted[i].type = t})

NodeDerived(e) == e.node > 0

PrimaryIdx == {i \in DOMAIN emitted : emitted[i].kind = "primary"}

\* The terminal event has been yielded.
StreamOver == pc \in {"completed", "failed", "done"}

\* The engine's sequence raised, and the stream ended with it.
EngineFailure == "engine failure"

EngineRaised ==
  /\ pc \in {"failed", "done"}
  /\ pulls > 0
  /\ emitted # <<>>
  /\ Last.type = "error"

\* The engine's sequence was exhausted without a timeout.
ExhaustedNormally ==
  /\ pc \in {"completed", "done"}
  /\ emitted # <<>>
  /\ Last.type = "stage_complete"
  /\ CountType("timeout_warning") = 0

\* (chunk, node) of e does not come after that of f.
OriginLeq(e, f) ==
  \/ e.chunk < f.chunk
  \/ (e.chunk = f.chunk /\ e.node <= f.node)

SameOrigin(e, f) == e.chunk = f.chunk /\ e.node = f.node

\* C1: once the stream is over it holds exactly one terminal event
\* (stage_complete or error), and that event is the last one.
C1_ExactlyOneTerminal ==
  StreamOver =>
    /\ CountType("stage_complete") + CountType("error") = 1
    /\ Last.type \in {"stage_complete", "error"}

\* The node-derived events of the stream, in the order yielded.
NodeEvents == SelectSeq(emitted, NodeDerived)

\* C2: after normal exhaustion without timeout the stream holds exactly one
\* stage_start and exactly one stage_complete, and node-derived events appear
\* in delivery order: chunk by chunk, and inside a chunk in its node order
\* (each node-derived event against the one before it; the order is
\* transitive).
C2_OneStartOneCompleteInOrder ==
  /\ \A i \in 1..(Len(NodeEvents) - 1) :
       OriginLeq(NodeEvents[i], NodeEvents[i + 1])
  /\ ExhaustedNormally =>
       /\ CountType("stage_start") = 1
       /\ CountType("stage_complete") = 1
       /\ emitted[1].type = "stage_start"

C2_Witness ==
  /\ ExhaustedNormally
  /\ delivered = 2
  /\ \E i, j \in PrimaryIdx :
       /\ i < j
       /\ emitted[i].chunk = emitted[j].chunk
       /\ emitted[i].node = 1
       /\ emitted[j].node = 2

\* C3: on timeout the stream holds exactly one timeout_warning, nothing is
\* pulled from the engine and no node-derived event is yielded after it, one
\* stage_complete follows it, and the stream holds no error event.
C3_TimeoutThenCompleteNoError ==
  \A i \in DOMAIN emitted :
    emitted[i].type = "timeout_warning" =>
      /\ CountType("timeout_warning") = 1
      /\ pulls = emitted[i].chunk
      /\ \A j \in DOMAIN emitted : j > i => ~NodeDerived(emitted[j])
      /\ StreamOver =>
           /\ Len(emitted) = i + 1
           /\ Last.type = "stage_complete"
           /\ CountType("stage_complete") = 1
      /\ CountType("error") = 0

\* C4: when the engine's sequence raises after delivering M node updates, the
\* stream holds the primary event of each of the M updates, then exactly one
\* error event carrying the engine's message, as its last event, and no
\* stage_complete.
C4_EngineFailureEndsWithOneError ==
  EngineRaised =>
    /\ Cardinality(PrimaryIdx) = delivered
    /\ Last.error = EngineFailure
    /\ Cardinality({i \in DOMAIN emitted :
                      emitted[i].type = "error"
                      /\ emitted[i].error = EngineFailure}) = 1
    /\ CountType("stage_complete") = 0

C4_Witness ==
  /\ EngineRaised
  /\ delivered = 2
  /\ Cardinality(PrimaryIdx) = 2

\* C5: an event of type error is in the stream only when the engine's
\* sequence raised: no node update yields one, nor any other step.
C5_ErrorOnlyFromEngine ==
  \A i \in DOMAIN emitted :
    emitted[i].type = "error" =>
      /\ ~NodeDerived(emitted[i])
      /\ i = Len(emitted)
      /\ EngineRaised

\* An update whose processing fails left this primary event (the processor's
\* own error event).
FailedPrimary(e) == e.kind = "primary" /\ e.type = "error"

\* Every node update delivered so far has been routed through the node
\* processor whenever the generator stands at the engine's sequence or the
\* engine's sequence has ended.
AllRouted ==
  (AtAwait \/ ExhaustedNormally \/ EngineRaised)
    => Cardinality(PrimaryIdx) = delivered

IsPrefix(s, t) ==
  /\ Len(s) <= Len(t)
  /\ \A i \in DOMAIN s : s[i] = t[i]

\* C6: a node update whose processing raises does not stop the loop: the
\* remaining node updates of the chunk and of later chunks are processed,
\* events already yielded stay in the stream, and when the engine's sequence
\* is exhausted the stream ends with stage_complete.
C6_NodeFailureContained ==
  [][ /\ AllRouted'
      /\ IsPrefix(emitted, emitted')
      /\ (ExhaustedNormally' => Last'.type = "stage_complete") ]_vars

C6_Witness ==
  /\ ExhaustedNormally
  /\ \E i, j \in PrimaryIdx :
       /\ FailedPrimary(emitted[i])
       /\ i < j
       /\ emitted[j].chunk = emitted[i].chunk

\* C7: chunks_completed of the timeout_warning is the number of chunks whose
\* node updates were processed and forwarded before the timeout was detected.
C7_ChunksCompletedCountsForwarded ==
  \A i \in DOMAIN emitted :
    emitted[i].type = "timeout_warning" =>
      emitted[i].n =
        Cardinality({emitted[j].chunk :
                       j \in {x \in DOMAIN emitted :
                                x < i /\ NodeDerived(emitted[x])}})

\* Rank of an event inside the fan-out of one node update.
FanoutRank(e) ==
  CASE e.kind = "primary" -> 1
    [] e.kind = "json" -> 2
    [] e.kind = "sources" -> 3
    [] OTHER -> 4

\* C8: the events of one node update are yielded as: primary event, api_call
\* events of its embedded blocks, sources_found, supervisor sub-events, with
\* no other event in between; and all of them before any event of the next
\* node update (a primary event opens an origin later than every origin
\* before it).
C8_FanoutOrder ==
  /\ \A i \in 1..(Len(emitted) - 1) :
       (NodeDerived(emitted[i + 1]) /\ emitted[i + 1].kind # "primary")
         => /\ SameOrigin(emitted[i], emitted[i + 1])
            /\ FanoutRank(emitted[i]) <= FanoutRank(emitted[i + 1])
  /\ \A i \in 1..(Len(NodeEvents) - 1) :
       NodeEvents[i + 1].kind = "primary"
         => /\ OriginLeq(NodeEvents[i], NodeEvents[i + 1])
            /\ ~SameOrigin(NodeEvents[i], NodeEvents[i + 1])
  /\ NodeEvents # <<>> => NodeEvents[1].kind = "primary"

C8_Witness ==
  \E i \in DOMAIN emitted :
    /\ i + 5 <= Len(emitted)
    /\ emitted[i].kind = "primary"
    /\ emitted[i + 1].kind = "json"
    /\ \E j, k, m \in DOMAIN emitted :
         /\ i < j /\ j < k /\ k < m
         /\ emitted[j].kind = "sources"
         /\ emitted[k].kind = "sup"
         /\ SameOrigin(emitted[i], emitted[k])
         /\ emitted[m].kind = "primary"
         /\ emitted[m].chunk = emitted[i].chunk

\* The fan-out of the node update of the primary event at i is over.
FanoutOver(i) ==
  \/ \E j \in DOMAIN emitted : j > i /\ ~SameOrigin(emitted[i], emitted[j])
  \/ pc = "done"

\* C9: for each of the five block types found with at least one entry in a
\* primary event's content exactly one api_call event of that block type is
\* yielded for the node update, and none for a block type with no entry.
C9_OneApiCallPerNonEmptyBlock ==
  \A i \in PrimaryIdx :
    FanoutOver(i) =>
      \A k \in BlockKeySet :
        Cardinality({j \in DOMAIN emitted :
                       /\ emitted[j].kind = "json"
                       /\ SameOrigin(emitted[i], emitted[j])
                       /\ emitted[j].key = k})
          = IF ExtractJsonBlocks(emitted[i].content)[k] > 0 THEN 1 ELSE 0

\* C10: the engine is asked for a chunk only when the consumer has taken every
\* event yielded so far, and once the consumer has stopped pulling nothing is
\* asked of the engine and nothing is yielded.
C10_LazyPullBased ==
  [][ /\ (pulls' # pulls => received = emitted)
      /\ (consumer = "stopped" => (pulls' = pulls /\ emitted' = emitted)) ]_vars

C10_Witness ==
  /\ consumer = "stopped"
  /\ pulls >= 1
  /\ pending # <<>>
  /\ received = emitted

\* ------------------------------------------------------------------- C11
IsStageStart(e) ==
  e.type = "stage_start" /\ e.stage = "initialization"

IsResolvedModel(e) ==
  e.type = "api_call" /\ e.kind = "resolved_model"

InitialPairEmitted ==
  /\ Len(emitted) >= 2
  /\ IsStageStart(emitted[1])
  /\ IsResolvedModel(emitted[2])

ConfigFailed ==
  /\ Len(emitted) = 1
  /\ emitted[1].type = "error"
  /\ emitted[1].error = "config failure"
  /\ pulls = 0

C12_SameSessionOnEveryEvent ==
  \A i \in 1..Len(emitted) :
     emitted[i].research_id = research_id /\ emitted[i].model = model

KindsEmitted == {emitted[i].kind : i \in 1..Len(emitted)}

C12_Witness ==
  /\ research_id = "research_b"
  /\ {"stage_start", "resolved_model", "chunk", "primary", "json", "sources",
      "sup", "heartbeat", "timeout", "complete"} \subseteq KindsEmitted

C14_StageFromTable ==
  \A i \in 1..Len(emitted) :
     (emitted[i].kind = "primary" /\ emitted[i].chunk = node_count) =>
        /\ emitted[i].type # "error"
        /\ emitted[i].stage = StageMapping(chunk[emitted[i].node].name)


\* ======================================================================
\* The content extractors on text, studied one call at a time.
\* ======================================================================

\* ----------------------------------------------------------------- bounds
\* Number of different URLs a text may mention.
MaxUrls == 5

\* Number of times the operation under study is called on the same input.
MaxCalls == 2

\* ----------------------------------------------------------------- strings
\* A string the source patterns can capture: a URL (told apart by id), or a
\* name of id characters; trail counts the blanks that follow it on its line.
Url(i) == [kind |-> "url", id |-> i, trail |-> 0]
Name(n) == [kind |-> "name", id |-> n, trail |-> 0]

\* One character of running prose; id tells two characters apart.
Char(c) == [kind |-> "char", id |-> c, trail |-> 0]

\* `https?://` and at least one more character.
MinUrlLen == 8

\* len(s)
StrLen(s) ==
  (CASE s.kind = "url" -> MinUrlLen + s.id
     [] s.kind = "char" -> 1
     [] OTHER -> s.id) + s.trail

\* s.strip()
Strip(s) == [s EXCEPT !.trail = 0]

\* The strings a text may mention: the URLs, a name of 3 characters and a
\* name of 4 characters.
SourceStrings ==
  [i \in 1..(MaxUrls + 2) |->
     IF i <= MaxUrls THEN Url(i) ELSE Name(i - MaxUrls + 2)]

\* A text, line by line.  A line mentions its string bare (in running
\* prose), or labelled (`Source: <string> ` up to the end of the line), or is
\* prose that mentions nothing.
Prose == [form |-> "prose", s |-> Char(1)]

LineOf(form, s) ==
  CASE form = "labelled" -> [form |-> "labelled", s |-> s]
    [] form = "bare" /\ s.kind = "url" -> [form |-> "bare", s |-> s]
    [] form = "bare" /\ s.kind # "url" -> [form |-> "prose", s |-> s]
    [] OTHER -> Prose

SourceTexts ==
  { [i \in 1..Len(SourceStrings) |-> LineOf(f[i], SourceStrings[i])] :
      f \in [1..Len(SourceStrings) -> {"absent", "bare", "labelled"}] }

\* ------------------------------------------------ _extract_sources_from_text
\* url_pattern matches a URL wherever it stands, up to the first blank.
HasUrl(line) ==
  line.form \in {"bare", "labelled"} /\ line.s.kind = "url"

\* re.findall(url_pattern, text)
FindAllUrls(text) ==
  LET lines == SelectSeq(text, HasUrl)
  IN [i \in 1..Len(lines) |-> lines[i].s]

HasLabel(line) == line.form = "labelled"

SourcePatterns ==
  <<"SOURCE:", "Source:", "from", "according to", "cited from",
    "reference:", "via">>

\* re.findall(pattern, text, re.IGNORECASE): `SOURCE:` and `Source:` match
\* the same lines and capture the rest of the line, its trailing blank
\* included; the texts studied hold no other label.
FindAll(pattern, text) ==
  IF pattern \in {"SOURCE:", "Source:"}
    THEN LET lines == SelectSeq(text, HasLabel)
         IN [i \in 1..Len(lines) |-> [lines[i].s EXCEPT !.trail = 1]]
    ELSE <<>>

LongEnough(s) == StrLen(s) > 3

StripAll(matches) == [i \in 1..Len(matches) |-> Strip(matches[i])]

\* [match.strip() for match in matches if len(match.strip()) > 3]
KeptMatches(matches) == SelectSeq(StripAll(matches), LongEnough)

RECURSIVE CollectSources(_, _, _)
\* sources after the patterns from p on have been applied.
CollectSources(sources, text, p) ==
  IF p > Len(SourcePatterns) THEN sources
  ELSE CollectSources(sources \o KeptMatches(FindAll(SourcePatterns[p], text)),
                      text, p + 1)

\* Where the interpreter's string hashing puts a string in the iteration
\* order of a set: the order differs from one interpreter run to the next.
HashSeeds == {1, 2}

HashKey(s, seed) ==
  LET k == 2 * (IF s.kind = "url" THEN s.id ELSE MaxUrls + s.id) + s.trail
  IN IF seed = 1 THEN k ELSE 0 - k

RECURSIVE IterationOrder(_, _)
\* list(S) of a set of strings.
IterationOrder(S, seed) ==
  IF S = {} THEN <<>>
  ELSE LET m == CHOOSE x \in S :
                  \A y \in S : HashKey(x, seed) <= HashKey(y, seed)
       IN <<m>> \o IterationOrder(S \ {m}, seed)

\* The collected list, duplicates and all.
SourcesAsCollected(sources, seed) == sources

\* unique_sources = list(set(sources))
UniqueSources(sources, seed) ==
  IterationOrder({sources[i] : i \in 1..Len(sources)}, seed)

Take(seq, n) == IF Len(seq) <= n THEN seq ELSE SubSeq(seq, 1, n)

\* _extract_sources_from_text, on a text given line by line.
ExtractSources(text, seed) ==
  LET urls == FindAllUrls(text)
      sources == CollectSources(urls, text, 1)
      unique_sources == UniqueSources(sources, seed)
  IN Take(SelectSeq(unique_sources, LongEnough), MaxSources)

\* --------------------------------------------------------- stream at rest
\* The stream variables while a content operation is studied on its own.
StreamAtRest ==
  /\ stage_logs = NoLogs
  /\ research_id = "research_a"
  /\ model = "openai"
  /\ pc = "start"
  /\ demand = FALSE
  /\ emitted = <<>>
  /\ received = <<>>
  /\ consumer = "idle"
  /\ status = "running"
  /\ current_stage = "initialization"
  /\ node_count = 0
  /\ last_heartbeat = 0
  /\ now = 0
  /\ chunk = <<>>
  /\ idx = 1
  /\ pending = <<>>
  /\ pulls = 0
  /\ delivered = 0

stream_vars ==
  <<stage_logs, research_id, model, pc, demand, emitted, received, consumer,
    status,
    current_stage, node_count, last_heartbeat, now, chunk, idx, pending,
    pulls, delivered>>

\* ------------------------------------------- specification: source extractor
SourcesInit ==
  /\ StreamAtRest
  /\ op_input \in {[op |-> "sources", text |-> t] : t \in SourceTexts}
  /\ op_output = <<>>
  /\ hash_seed \in HashSeeds

CallExtractSourcesFromText ==
  /\ op_input.op = "sources"
  /\ Len(op_output) < MaxCalls
  /\ op_output' = Append(op_output, ExtractSources(op_input.text, hash_seed))
  /\ UNCHANGED <<op_input, hash_seed, stream_vars>>

\* The program is started again: a new interpreter, a new hash seed.
Restart ==
  /\ \E seed \in HashSeeds \ {hash_seed} : hash_seed' = seed
  /\ UNCHANGED <<op_input, op_output, stream_vars>>

SourcesNext == CallExtractSourcesFromText \/ Restart

SourcesSpec == SourcesInit /\ [][SourcesNext]_vars

\* ------------------------------------------------------------------- C16
\* C16: whatever the text, every result of extract_sources_from_text holds
\* at most 5 strings, no string twice, and only strings longer than 3
\* characters.
C16_AtMostFiveUniqueLongSources ==
  \A c \in 1..Len(op_output) :
     LET r == op_output[c]
     IN /\ Len(r) <= 5
        /\ \A i, j \in 1..Len(r) : i # j => r[i] # r[j]
        /\ \A i \in 1..Len(r) : StrLen(r[i]) > 3

\* A text with six different sources, one of them matched by three patterns
\* and a label too short to count: five come back.
C16_Witness ==
  /\ op_input.op = "sources"
  /\ \A i \in 1..MaxUrls : op_input.text[i].form # "prose"
  /\ op_input.text[1].form = "labelled"
  /\ op_input.text[MaxUrls + 1].form = "labelled"
  /\ op_input.text[MaxUrls + 2].form = "labelled"
  /\ Len(op_output) >= 1
  /\ Len(op_output[1]) = MaxSources


\* ------------------------------------------------------------------- C19
\* C19: a content extractor operation is deterministic: every two calls on
\* the same input return the same output, the same sources in the same
\* order, also when more than 5 different sources match.
C19_SameInputSameOutput ==
  \A i, j \in 1..Len(op_output) : op_output[i] = op_output[j]


\* ======================================================================
\* _extract_json_blocks on text, token by token.
\* ======================================================================

\* Number of blocks a text may hold.
MaxBlocks == 2

\* The header of each key, as the patterns spell it.
Header(key) ==
  CASE key = "crawl_log" -> "CrawlLog JSON:"
    [] key = "first_party_pages" -> "FirstPartyPages JSON:"
    [] key = "search_queries" -> "SearchQueries JSON:"
    [] key = "social_profiles" -> "SocialProfiles JSON:"
    [] key = "ecommerce_listings" -> "EcommerceListings JSON:"

\* What may follow a header, in tokens: `[`, `]`, `,` and a scalar `x`.
WellFormedBodies ==
  { <<"[", "]">>,
    <<"[", "x", "]">>,
    <<"[", "[", "x", "]", ",", "x", "]">> }

MalformedBodies ==
  { <<>>,
    <<"[", "x">>,
    <<"[", "x", ",", "]">>,
    <<"x", "]">> }

Bodies == WellFormedBodies \cup MalformedBodies

\* A block: a header and what follows it up to the next header.
JsonBlocks == [key : BlockKeySet, body : Bodies]

BlockSeqs == UNION { [1..n -> JsonBlocks] : n \in 0..MaxBlocks }

RECURSIVE TextOf(_)
\* The text a sequence of blocks spells.
TextOf(blocks) ==
  IF blocks = <<>> THEN <<>>
  ELSE <<Header(Head(blocks).key)>> \o Head(blocks).body \o TextOf(Tail(blocks))

\* ----------------------------------------------------------- json.loads
Scalar == [t |-> "scalar", items |-> <<>>]
Array(items) == [t |-> "array", items |-> items]
JsonError == [ok |-> FALSE, val |-> Scalar, next |-> 0]
Parsed(val, next) == [ok |-> TRUE, val |-> val, next |-> next]

RECURSIVE ParseValue(_, _)
RECURSIVE ParseItems(_, _, _)
\* The JSON value that starts at token i of raw.
ParseValue(raw, i) ==
  IF i > Len(raw) THEN JsonError
  ELSE IF raw[i] = "x" THEN Parsed(Scalar, i + 1)
  ELSE IF raw[i] = "[" THEN
         IF i + 1 <= Len(raw) /\ raw[i + 1] = "]"
           THEN Parsed(Array(<<>>), i + 2)
           ELSE ParseItems(raw, i + 1, <<>>)
  ELSE JsonError

\* The elements of an array from token i on, items being those read so far.
ParseItems(raw, i, items) ==
  LET v == ParseValue(raw, i)
  IN IF ~v.ok \/ v.next > Len(raw) THEN JsonError
     ELSE IF raw[v.next] = "," THEN ParseItems(raw, v.next + 1, Append(items, v.val))
     ELSE IF raw[v.next] = "]" THEN Parsed(Array(Append(items, v.val)), v.next + 1)
     ELSE JsonError

\* json.loads(raw): the whole of raw must be one value.
JsonLoads(raw) ==
  LET v == ParseValue(raw, 1)
  IN IF v.ok /\ v.next = Len(raw) + 1 THEN v ELSE JsonError

\* ------------------------------------------------------------- re.search
RECURSIVE FirstClose(_, _)
\* Position of the first `]` at or after token i, 0 when there is none.
FirstClose(text, i) ==
  IF i > Len(text) THEN 0
  ELSE IF text[i] = "]" THEN i
  ELSE FirstClose(text, i + 1)

NoMatchFound == [found |-> FALSE, raw |-> <<>>]

RECURSIVE SearchFrom(_, _, _)
\* re.search(r"<header>\s*:\s*(\[[\s\S]*?\])", text) from token i on: the
\* leftmost header that is followed by `[`, and from that `[` up to the first
\* `]` after it.
SearchFrom(text, header, i) ==
  IF i > Len(text) THEN NoMatchFound
  ELSE IF /\ text[i] = header
          /\ i + 1 <= Len(text)
          /\ text[i + 1] = "["
          /\ FirstClose(text, i + 2) > 0
         THEN [found |-> TRUE, raw |-> SubSeq(text, i + 1, FirstClose(text, i + 2))]
         ELSE SearchFrom(text, header, i + 1)

\* ------------------------------------------------------ the extraction loop
\* A parse failure that ends the loop over the keys.
AfterParseFailureBreaks(p) == Len(BlockKeys) + 1

\* `except Exception: continue`: on to the next key.
AfterParseFailure(p) == p + 1

EmptyBlocks == [k \in BlockKeySet |-> Array(<<>>)]

RECURSIVE ExtractFromKey(_, _, _)
\* `for key, pat in patterns` from the p-th pattern on.
ExtractFromKey(text, blocks, p) ==
  IF p > Len(BlockKeys) THEN blocks
  ELSE LET key == BlockKeys[p]
           m == SearchFrom(text, Header(key), 1)
           parsed == JsonLoads(m.raw)
       IN IF ~m.found THEN ExtractFromKey(text, blocks, p + 1)
          ELSE IF parsed.ok /\ parsed.val.t = "array"
            THEN ExtractFromKey(text, [blocks EXCEPT ![key] = parsed.val], p + 1)
            ELSE ExtractFromKey(text, blocks, AfterParseFailure(p))

\* _extract_json_blocks, on a text given token by token.
ExtractJsonBlocksOfText(text) == ExtractFromKey(text, EmptyBlocks, 1)

\* ---------------------------------------- specification: JSON block extractor
JsonInit ==
  /\ StreamAtRest
  /\ op_input \in {[op |-> "json_blocks", blocks |-> b] : b \in BlockSeqs}
  /\ op_output = <<>>
  /\ hash_seed = 1

CallExtractJsonBlocks ==
  /\ op_input.op = "json_blocks"
  /\ op_output = <<>>
  /\ op_output' = <<ExtractJsonBlocksOfText(TextOf(op_input.blocks))>>
  /\ UNCHANGED <<op_input, hash_seed, stream_vars>>

JsonNext == CallExtractJsonBlocks

JsonSpec == JsonInit /\ [][JsonNext]_vars

\* ------------------------------------------------------------------- C17
BlocksOfKey(blocks, key) ==
  {i \in 1..Len(blocks) : blocks[i].key = key}

\* C17: when the text holds the header `CrawlLog JSON:` followed by a
\* well-formed JSON array literal, nested arrays included, the result has
\* under crawl_log exactly the array that literal parses to.
C17_CrawlLogIsParsedArray ==
  \A i \in 1..Len(op_input.blocks) :
     ( /\ op_output # <<>>
       /\ BlocksOfKey(op_input.blocks, "crawl_log") = {i}
       /\ op_input.blocks[i].body \in WellFormedBodies )
     => op_output[1]["crawl_log"] = JsonLoads(op_input.blocks[i].body).val

\* ------------------------------------------------------------------- C18
Without(blocks, i) ==
  [j \in 1..(Len(blocks) - 1) |-> IF j < i THEN blocks[j] ELSE blocks[j + 1]]

BRIEF_PREVIEW == 300
REPORT_PREVIEW == 400
FALLBACK_MIN == 100
FALLBACK_PREVIEW == 200

\* A fixed fragment of the f-strings, n characters long.
Lit(tag, n) == [form |-> tag, s |-> Name(n)]

Ellipsis == Lit("...", 3)

\* Characters a line takes in the text: a bare URL with the blank that ends
\* it, a labelled string with `Source: ` before and blank and newline after.
LineLen(line) ==
  CASE line.form = "bare" -> StrLen(line.s) + 1
    [] line.form = "labelled" -> StrLen(line.s) + 10
    [] OTHER -> StrLen(line.s)

RECURSIVE TextLen(_)
\* len(text): the lines of the first half and those of the second half.
TextLen(text) ==
  CASE Len(text) = 0 -> 0
    [] Len(text) = 1 -> LineLen(text[1])
    [] OTHER ->
         LET half == Len(text) \div 2
         IN TextLen(SubSeq(text, 1, half)) +
            TextLen(SubSeq(text, half + 1, Len(text)))

\* Length in characters of each value a payload may carry.
ValueLengths == {1, 301, 401}

\* A value of n characters: character 2 at position mark (0: nowhere),
\* character 1 elsewhere, and a URL in front when with_url.
ValueText(n, mark, with_url) ==
  (IF with_url THEN <<[form |-> "bare", s |-> Url(1)]>> ELSE <<>>) \o
  [i \in 1..n |-> [form |-> "prose", s |-> Char(IF i = mark THEN 2 ELSE 1)]]

ValueTexts ==
  UNION { { ValueText(n, mark, with_url) :
              mark \in {0, n}, with_url \in BOOLEAN } : n \in ValueLengths }

\* node_data: a dict with one key, or an object with one attribute.
ContentPayloads ==
  [shape : {"mapping", "object"},
   key : {"research_brief", "final_report", "notes"},
   value : ValueTexts]

\* text[:n], for a cut that falls between two lines.
Truncate(text, n) ==
  LET fits == {k \in 0..Len(text) : TextLen(SubSeq(text, 1, k)) <= n}
      cut == CHOOSE k \in fits : \A j \in fits : j <= k
  IN SubSeq(text, 1, cut)

\* text[:n] + "..." if len(text) > n else text
Preview(text, n) ==
  IF TextLen(text) > n THEN Truncate(text, n) \o <<Ellipsis>> ELSE text

\* len(key)
KeyLen(key) ==
  CASE key = "research_brief" -> 14
    [] key = "final_report" -> 12
    [] key = "notes" -> 5

\* str(node_data.__dict__) of an object with one attribute:
\* `{'<key>': '<value>'}`.
DictStr(node_data) ==
  <<Lit("dict_open", KeyLen(node_data.key) + 6)>> \o node_data.value \o
  <<Lit("dict_close", 2)>>

\* _extract_text_content of a payload without messages.
ExtractTextContent(node_data) ==
  IF node_data.shape = "object" /\ TextLen(DictStr(node_data)) > FALLBACK_MIN
    THEN Truncate(DictStr(node_data), FALLBACK_PREVIEW) \o <<Ellipsis>>
    ELSE <<>>

\* A field value cut down to the preview of the attribute branch.
FieldValuePreview(value) == Preview(value, BRIEF_PREVIEW)

\* str(node_data['research_brief']), str(node_data['final_report']) of a
\* value that is a str: the value itself.
FieldValue(value) == value

\* The `## Sources and References` section: one numbered line per source.
SourcesSection(sources) ==
  IF sources = <<>> THEN <<>>
  ELSE <<Lit("## Sources and References", 28)>> \o
       [i \in 1..(2 * Len(sources)) |->
          IF i % 2 = 1 THEN Lit("<i>. ", 3)
          ELSE [form |-> "cited", s |-> sources[i \div 2]]]

HasKey(node_data, key) == node_data.shape = "mapping" /\ node_data.key = key

HasAttr(node_data, attr) == node_data.shape = "object" /\ node_data.key = attr

\* The fallback of the else branches: no AI messages in these payloads.
Fallback(node_data, label) ==
  IF ExtractTextContent(node_data) # <<>>
    THEN <<Lit(label, 0)>> \o ExtractTextContent(node_data)
    ELSE <<>>

\* _generate_node_content of a write_research_brief or
\* final_report_generation update whose payload has no messages.
GenerateNodeContentText(node_name, node_data, nc, seed) ==
  CASE node_name = "write_research_brief" ->
         <<Lit("Step <n>: Creating comprehensive research brief", nc)>> \o
         ( IF HasKey(node_data, "research_brief")
             THEN <<Lit("Generated Research Brief:", 28)>> \o
                  FieldValue(node_data.value)
             ELSE ( IF HasAttr(node_data, "research_brief")
                      THEN <<Lit("Final Brief: ", 14)>> \o
                           Preview(node_data.value, BRIEF_PREVIEW)
                      ELSE <<>> ) \o
                  Fallback(node_data, "Research Strategy: ") )
    [] node_name = "final_report_generation" ->
         <<Lit("Step <n>: Generating final research report", nc)>> \o
         ( IF HasKey(node_data, "final_report")
             THEN LET report_content == FieldValue(node_data.value)
                      sources == ExtractSources(report_content, seed)
                  IN <<Lit("Final Report: ", 16)>> \o report_content \o
                     SourcesSection(sources)
             ELSE ( IF HasAttr(node_data, "final_report")
                      THEN <<Lit("Generated Report: ", 19)>> \o
                           Preview(node_data.value, REPORT_PREVIEW)
                      ELSE <<>> ) \o
                  Fallback(node_data, "Final Report: ") )

\* ----------------------------------------- specification: node content
ContentInit ==
  /\ StreamAtRest
  /\ op_input \in [op : {"node_content"},
                   node_name : {"write_research_brief",
                                "final_report_generation"},
                   node_data : ContentPayloads,
                   node_count : 1..MaxUpdates]
  /\ op_output = <<>>
  /\ hash_seed = 1

\* _process_workflow_node on the update: the stage_update event with the
\* generated content.
CallProcessWorkflowNode ==
  /\ op_input.op = "node_content"
  /\ op_output = <<>>
  /\ op_output' =
       <<[type |-> "stage_update",
          stage |-> StageMapping(op_input.node_name),
          content |-> GenerateNodeContentText(op_input.node_name,
                                              op_input.node_data,
                                              op_input.node_count, hash_seed)]>>
  /\ UNCHANGED <<op_input, hash_seed, stream_vars>>

ContentNext == CallProcessWorkflowNode

ContentSpec == ContentInit /\ [][ContentNext]_vars

\* ------------------------------------------------------------------- C15
\* v occurs in c as one contiguous run.
IsContiguousIn(v, c) ==
  \E off \in 0..(Len(c) - Len(v)) :
     \A i \in 1..Len(v) : c[off + i] = v[i]

DeliverableKey(node_name) ==
  IF node_name = "write_research_brief" THEN "research_brief"
  ELSE "final_report"

\* C15: for a write_research_brief update whose payload is a mapping with the
\* key research_brief, and a final_report_generation update whose payload is
\* a mapping with the key final_report, the content of the emitted event
\* holds the whole field value as one contiguous run, whatever its length.
C15_DeliverableVerbatim ==
  ( /\ op_output # <<>>
    /\ HasKey(op_input.node_data, DeliverableKey(op_input.node_name)) )
  => IsContiguousIn(op_input.node_data.value, op_output[1].content)

\* A final report of 401 characters that cites a URL: the content holds all
\* of it and the sources section after it.
C15_Witness ==
  /\ op_output # <<>>
  /\ op_input.node_name = "final_report_generation"
  /\ HasKey(op_input.node_data, "final_report")
  /\ op_input.node_data.value = ValueText(401, 401, TRUE)
  /\ op_output[1].stage = "final_report"
  /\ Len(op_output[1].content) > Len(op_input.node_data.value) + 2

\* ------------------------------------------------------------------- C20
\* The entries the stage logs must hold for key k: one per received event of
\* that stage, in arrival order.
EntriesFor(k) ==
  LET OfStage(e) == StageKey(e) = k
      events == SelectSeq(received, OfStage)
  IN [i \in 1..Len(events) |-> LogEntry(events[i])]

\* The consumer is not in the middle of a loop iteration.
BetweenIterations == demand \/ consumer \in {"stopped", "finished"}

\* C20: deep_research_events is exactly the events pulled so far, in arrival
\* order; every pulled event has exactly one entry in the stage-log bucket of
\* its stage, and no bucket holds anything else; and when the consumer stops
\* on a conflict, the event that showed the conflict is already recorded.
C20_EveryPulledEventRecorded ==
  /\ IsPrefix(received, emitted)
  /\ BetweenIterations => received = emitted
  /\ \A k \in StageKeys : stage_logs[k] = EntriesFor(k)
  /\ consumer = "stopped" =>
       /\ received # <<>>
       /\ DetectConflicts(received[Len(received)])
       /\ received[Len(received)] = Last

C20_Witness ==
  /\ consumer = "stopped"
  /\ Len(received) >= 5
  /\ stage_logs["initialization"] # <<>>
  /\ stage_logs["research_execution"] # <<>>
  /\ received[Len(received)].kind = "sup"

\* ------------------------------------------------------------------- C21
IsHeartbeat(e) == e.kind = "heartbeat"

Heartbeats == SelectSeq(emitted, IsHeartbeat)

ProcessedChunksBefore(i) ==
  {emitted[j].chunk :
     j \in {x \in DOMAIN emitted : x < i /\ emitted[x].kind = "primary"}}

\* C22: total_nodes of the stage_complete event is the number of chunks
\* whose node updates were routed through the node processor, each chunk
\* counted once.
C22_TotalNodesCountsProcessed ==
  \A i \in DOMAIN emitted :
    emitted[i].type = "stage_complete" =>
      emitted[i].n = Cardinality(ProcessedChunksBefore(i))

\* ------------------------------------------------------------------- C23
\* Rendering the payload raises inside _generate_node_content.
ContentGenerationRaises(u) == u.data.probe = "raises"

\* C23: for every node update, also one on which content generation raises,
\* the node processor returns an event of type stage_update whose stage is
\* the one the stage mapping gives for the node's name; when content
\* generation raised, its content is the generic "Step n: Processing name"
\* line.
C23_ProcessorAlwaysReturnsStageUpdate ==
  \A i \in 1..Len(emitted) :
     (emitted[i].kind = "primary" /\ emitted[i].chunk = node_count) =>
        LET u == chunk[emitted[i].node]
        IN  /\ emitted[i].type = "stage_update"
            /\ emitted[i].stage = StageMapping(u.name)
            /\ ContentGenerationRaises(u) => emitted[i].content = PlainContent

\* ======================================================================
\* The supervisor expansion, studied one call at a time.
\* ======================================================================

\* Longest list of tool calls, messages and notes in a supervisor payload.
MaxSupItems == 2

ToolNames == {"ConductResearch", "think_tool", "ResearchComplete", "other_tool"}

MessageKinds == {"short", "plain", "urls"}

SeqsUpTo(S, n) == UNION { [1..k -> S] : k \in 0..n }

\* The supervisor payloads: tool calls of supervisor_messages, the messages
\* _extract_ai_messages returns, the notes (TRUE: longer than 50 characters),
\* compressed_research present or not, and the field whose shape makes the
\* expansion raise ("decisions": supervisor_messages or a tool call is not
\* what the loop expects; "notes": notes is truthy but not iterable).
SupPayloads ==
  [decisions : SeqsUpTo(ToolNames, MaxSupItems),
   actions : SeqsUpTo(MessageKinds, MaxSupItems),
   notes : SeqsUpTo(BOOLEAN, MaxSupItems),
   summary : BOOLEAN,
   fail : {"none", "decisions", "notes"}]

SupervisorUpdate(sup) ==
  [name |-> "research_supervisor",
   data |-> Payload("true", "ok", PlainContent, sup),
   pos |-> 1]

\* --------------------------------- specification: supervisor expansion
SupervisorInit ==
  /\ StreamAtRest
  /\ op_input \in [op : {"supervisor"}, sup : SupPayloads,
                   node_count : 1..MaxUpdates]
  /\ op_output = <<>>
  /\ hash_seed = 1

\* The whole expansion of one payload, as stream_research drains it (lines
\* 262-269).
CallProcessResearchSupervisorData ==
  /\ op_input.op = "supervisor"
  /\ op_output = <<>>
  /\ op_output' =
       <<ProcessResearchSupervisorData(SupervisorUpdate(op_input.sup),
                                       op_input.node_count)>>
  /\ UNCHANGED <<op_input, hash_seed, stream_vars>>

SupervisorNext == CallProcessResearchSupervisorData

SupervisorSpec == SupervisorInit /\ [][SupervisorNext]_vars

\* ------------------------------------------------------------------- C24
\* Place of a sub-event in the listed order, by its step.
SupRank(e) ==
  CASE e.key = "planning" -> 1
    [] e.key \in {"supervisor_decision", "supervisor_thinking",
                  "supervisor_completion"} -> 2
    [] e.key \in {"research_action", "action_sources"} -> 3
    [] e.key = "comprehensive_progress" -> 4
    [] e.key = "analysis" -> 5
    [] e.key = "finding" -> 6
    [] e.key = "synthesis" -> 7
    [] OTHER -> 8

StepOfTool(tool_name) ==
  CASE tool_name = "ConductResearch" -> "supervisor_decision"
    [] tool_name = "think_tool" -> "supervisor_thinking"
    [] tool_name = "ResearchComplete" -> "supervisor_completion"
    [] OTHER -> "none"

IsKnownTool(tool_name) == StepOfTool(tool_name) # "none"

StepsWith(out, keys) == {j \in DOMAIN out : out[j].key \in keys}

\* The events with one of the keys carry the indices of `wanted`, each once,
\* in increasing order.
IndexedInOrder(out, keys, wanted) ==
  /\ {out[j].n : j \in StepsWith(out, keys)} = wanted
  /\ \A j, k \in StepsWith(out, keys) : j < k => out[j].n < out[k].n

\* The sub-events of a payload are exactly the listed ones in the listed
\* order.
ListedOrder(sup, out) ==
  LET known == SelectSeq(sup.decisions, IsKnownTool)
      decided == StepsWith(out, {"supervisor_decision", "supervisor_thinking",
                                 "supervisor_completion"})
  IN  /\ \A k \in {"planning", "analysis", "synthesis"} :
            Cardinality(StepsWith(out, {k})) = 1
      /\ \A j \in 1..(Len(out) - 1) : SupRank(out[j]) <= SupRank(out[j + 1])
      /\ decided = 2..(Len(known) + 1)
      /\ \A j \in decided : out[j].key = StepOfTool(known[j - 1])
      /\ IndexedInOrder(out, {"research_action"},
                        {i \in DOMAIN sup.actions : sup.actions[i] # "short"})
      /\ \A j \in StepsWith(out, {"research_action"}) :
            sup.actions[out[j].n] = "urls" =>
               /\ j < Len(out)
               /\ out[j + 1].key = "action_sources"
               /\ out[j + 1].n = out[j].n
      /\ \A j \in StepsWith(out, {"action_sources"}) :
            /\ out[j - 1].key = "research_action"
            /\ out[j - 1].n = out[j].n
            /\ sup.actions[out[j].n] = "urls"
      /\ Cardinality(StepsWith(out, {"comprehensive_progress"})) =
           (IF StepsWith(out, {"research_action"}) # {} THEN 1 ELSE 0)
      /\ IndexedInOrder(out, {"finding"},
                        {i \in DOMAIN sup.notes : sup.notes[i]})
      /\ Cardinality(StepsWith(out, {"summary"})) =
           (IF sup.summary THEN 1 ELSE 0)

\* C24: the sub-events of one supervisor update are: the planning marker, the
\* decision events in tool-call order, the research-action events in message
\* order, each followed at once by its sources_found when it has sources, one
\* digest exactly when there is a research action, the analysis marker, the
\* finding events of the long notes in note order, the synthesis marker, and
\* the summary when compressed research is present.
C24_SubEventsInListedOrder ==
  op_output # <<>> => ListedOrder(op_input.sup, op_output[1])

\* ------------------------------------------------------------------- C25
PhaseMarkers == <<"planning", "analysis", "synthesis">>

\* C25: for every supervisor payload, also one with fields missing or of a
\* shape the expansion does not expect, the expansion returns to the
\* orchestrator with each of the three phase markers emitted exactly once;
\* for a payload with none of the optional fields the sub-events are exactly
\* the three markers.
C25_MarkersExactlyOnce ==
  op_output # <<>> =>
    LET out == op_output[1]
    IN  /\ \A m \in 1..Len(PhaseMarkers) :
              Cardinality({j \in DOMAIN out : out[j].key = PhaseMarkers[m]}) = 1
        /\ (/\ op_input.sup.fail = "none"
            /\ op_input.sup.decisions = <<>>
            /\ op_input.sup.actions = <<>>
            /\ op_input.sup.notes = <<>>
            /\ ~op_input.sup.summary)
             => /\ Len(out) = 3
                /\ \A m \in 1..3 : out[m].key = PhaseMarkers[m]

\* ======================================================================
\* _extract_ai_messages, studied one call at a time.
\* ======================================================================

\* Longest conversational-turn list of a payload.
MaxTurns == 5

\* len(content) > 20, len(content) > 500, messages[:5].
MIN_MESSAGE_LEN == 20
MAX_MESSAGE_LEN == 500
MAX_MESSAGES == 5

\* content_attributes, in scanning order.
ContentAttributes == <<"content", "response", "output", "result", "text">>

\* A string, by its length, whether it starts with "Human:", and where it
\* comes from (a turn of `messages` or a candidate attribute, and which).
Str(len, human, origin, index) ==
  [len |-> len, human |-> human, origin |-> origin, index |-> index]

\* The contents a turn may have: a short one, a human turn, an ordinary AI
\* response and one longer than 500 characters.
TurnKinds == {"short", "human", "text", "long"}

\* The values a candidate attribute may have.
AttrKinds == {"absent", "short", "long"}

KindLen(kind) ==
  CASE kind = "short" -> 12
    [] kind = "long" -> 640
    [] OTHER -> 120

MessagePayloads ==
  [messages : UNION { [1..k -> TurnKinds] : k \in 0..MaxTurns },
   attrs : [1..Len(ContentAttributes) -> AttrKinds]]

\* content[:500] + "..."
TruncateMessage(content) ==
  IF content.len > MAX_MESSAGE_LEN
    THEN [content EXCEPT !.len = MAX_MESSAGE_LEN + 3]
    ELSE content

\* Lines 686-695: the turns of `messages` that qualify, in list order.
RECURSIVE FromMessages(_, _)
FromMessages(msgs, i) ==
  IF i > Len(msgs) THEN <<>>
  ELSE LET content == Str(KindLen(msgs[i]), msgs[i] = "human", "turn", i)
       IN  (IF content.len > MIN_MESSAGE_LEN /\ ~content.human
              THEN <<TruncateMessage(content)>>
              ELSE <<>>)
           \o FromMessages(msgs, i + 1)

\* Lines 697-706: the first candidate attribute that qualifies.
RECURSIVE FromAttributes(_, _)
FromAttributes(attrs, a) ==
  IF a > Len(ContentAttributes) THEN <<>>
  ELSE IF attrs[a] # "absent" /\ KindLen(attrs[a]) > MIN_MESSAGE_LEN
         THEN <<TruncateMessage(Str(KindLen(attrs[a]), FALSE, "attr", a))>>
         ELSE FromAttributes(attrs, a + 1)

\* _extract_ai_messages.
ExtractAiMessages(node_data) ==
  LET messages == FromMessages(node_data.messages, 1)
                  \o FromAttributes(node_data.attrs, 1)
  IN  SubSeq(messages, 1, IF Len(messages) < MAX_MESSAGES THEN Len(messages)
                          ELSE MAX_MESSAGES)

\* ------------------------------------- specification: message extractor
MessagesInit ==
  /\ StreamAtRest
  /\ op_input \in [op : {"ai_messages"}, node_data : MessagePayloads]
  /\ op_output = <<>>
  /\ hash_seed = 1

CallExtractAiMessages ==
  /\ op_input.op = "ai_messages"
  /\ op_output = <<>>
  /\ op_output' = <<ExtractAiMessages(op_input.node_data)>>
  /\ UNCHANGED <<op_input, hash_seed, stream_vars>>

MessagesNext == CallExtractAiMessages

MessagesSpec == MessagesInit /\ [][MessagesNext]_vars

\* ------------------------------------------------------------------- C26
\* C26: the result of extract_ai_messages has at most 5 strings of at most
\* 503 characters each, the turn-derived ones in turn order, and when the
\* payload has a non-empty turn list every entry of the result is derived
\* from a turn, none from a candidate attribute.
C26_AttributesOnlyWithoutTurns ==
  op_output # <<>> =>
    LET out == op_output[1]
    IN  /\ Len(out) <= 5
        /\ \A j \in DOMAIN out : out[j].len <= 503
        /\ \A j, k \in DOMAIN out :
              (j < k /\ out[j].origin = "turn" /\ out[k].origin = "turn")
                 => out[j].index < out[k].index
        /\ op_input.node_data.messages # <<>> =>
              \A j \in DOMAIN out : out[j].origin = "turn"

\* ------------------------------------------------------------------- C27
\* C27: every event emitted by stream_research carries one of the research
\* stages, never None, and the tracked current stage is one of them at every
\* moment, so that the consumer's event.stage.value never fails.
C27_StageNeverNone ==
  /\ current_stage \in ResearchStage
  /\ \A i \in DOMAIN emitted : emitted[i].stage \in ResearchStage

\* A finished stream, wholly consumed, that holds an update of a node name
\* outside the stage mapping, supervisor sub-events and a heartbeat.
C27_Witness ==
  /\ StreamOver
  /\ received = emitted
  /\ \E i \in DOMAIN emitted :
        /\ emitted[i].kind = "primary"
        /\ emitted[i].chunk = node_count
        /\ chunk[emitted[i].node].name = "web_search"
  /\ \E i \in DOMAIN emitted : emitted[i].kind \in {"sup", "heartbeat"}

\* ------------------------------------------------------------------- C28
IsChunkEvent(e) == e.kind = "chunk"

ChunkEvents == SelectSeq(emitted, IsChunkEvent)

\* C28: every chunk received has exactly one per-chunk api_call, which is
\* the first event of the chunk: the events tagged with a new chunk start
\* with it, and nothing else is a per-chunk api_call; the chunk_number
\* values are 1, 2, 3, ... in emission order; the chunk on which the timeout
\* fires has its per-chunk api_call before the timeout_warning.
C28_OneChunkEventFirst ==
  /\ Len(ChunkEvents) = node_count
  /\ \A j \in 1..Len(ChunkEvents) : ChunkEvents[j].n = j
  /\ \A i \in 1..Len(emitted) :
        (emitted[i].kind = "chunk")
          <=> (emitted[i].chunk > (IF i = 1 THEN 0 ELSE emitted[i - 1].chunk))
  /\ \A i \in 1..Len(emitted) :
        emitted[i].kind = "timeout" =>
           \E j \in 1..(i - 1) :
              /\ emitted[j].kind = "chunk"
              /\ emitted[j].n = emitted[i].chunk
              /\ \A k \in (j + 1)..(i - 1) : emitted[k].kind = "heartbeat"

\* Two chunks received, the timeout firing on the second.
C28_Witness ==
  /\ Len(ChunkEvents) = 2
  /\ \E i \in DOMAIN emitted :
        emitted[i].kind = "timeout" /\ emitted[i].chunk = 2
  /\ \E i \in DOMAIN emitted :
        emitted[i].kind = "primary" /\ emitted[i].chunk = 1

\* ------------------------------------------------------------------- C29
\* Stage of the last primary node event among the first i events of the
\* stream; INITIALIZATION when there is none.
RECURSIVE LastPrimaryStage(_)
LastPrimaryStage(i) ==
  IF i = 0 THEN "initialization"
  ELSE IF emitted[i].kind = "primary" THEN emitted[i].stage
  ELSE LastPrimaryStage(i - 1)

\* C29: every per-chunk api_call, heartbeat, timeout_warning, auxiliary
\* api_call and sources_found event and the terminal error event carries the
\* stage of the last primary node event emitted before it (INITIALIZATION
\* when there is none), and the tracked stage is always that stage: the
\* supervisor sub-events, which carry stages of their own, do not change it.
C29_TrackedStageIsLastPrimary ==
  /\ current_stage = LastPrimaryStage(Len(emitted))
  /\ \A i \in 1..Len(emitted) :
        emitted[i].kind \in {"chunk", "heartbeat", "timeout", "json",
                             "sources", "fatal"}
          => emitted[i].stage = LastPrimaryStage(i - 1)

\* A per-chunk api_call right after the synthesis marker of a supervisor
\* update, carrying the stage of that update's primary event.
C29_Witness ==
  \E j \in 2..Len(emitted) :
     /\ emitted[j].kind = "chunk"
     /\ emitted[j].stage = "research_execution"
     /\ emitted[j - 1].kind = "sup"
     /\ emitted[j - 1].stage = "research_synthesis"

=============================================================================
